---- MODULE Spec2Model ----
(***************************************************************************)
(* Dispatch, route cache and live-progress core of the EROS backend.       *)
(*                                                                         *)
(* The relational store (units, emergencies, route_calculations,           *)
(* unit_locations) is shared by request handlers that run concurrently,    *)
(* each in its own session.  A handler is modelled as the sequence of its  *)
(* store round trips: every step below is one read phase or one commit,    *)
(* and steps of different requests interleave freely.                      *)
(*                                                                         *)
(* Coordinates are reduced to one axis (kilometres along a meridian), so   *)
(* the great-circle distance of two points is the absolute difference of   *)
(* their positions.  Progress fractions are multiples of 1/PScale.         *)
(***************************************************************************)
EXTENDS Integers, Sequences, FiniteSets, TLC

\* ---------------------------------------------------------------- bounds
NumUnits == 2
NumEmergencies == 2
NumWorkers == 2
MaxRoutes == 2
MaxSimSteps == 3
MaxElapsed == 1300
MaxAlternatives == 2
MaxPassRoutes == 3
MaxBaseRoutes == 5
MaxOrsRoutes == 3

Units == 1..NumUnits
Emergencies == 1..NumEmergencies
Workers == 1..NumWorkers

\* ------------------------------------------------------ program constants
MAX_DISTANCE_METERS == 50000
FRESH_DISPATCH_SECONDS == 60
DEFAULT_DURATION == 300
PScale == 30000

None == 0
ServiceTypes == {"AMBULANCE", "FIRE_TRUCK"}

\* Replies of the routing provider to the per-unit distance lookup:
\* a route (distance, duration), a reply without distance, or a failure.
OsrmRoutes ==
    { [kind |-> "route", distance |-> 30000, duration |-> 240],
      [kind |-> "route", distance |-> 50000, duration |-> 900],
      [kind |-> "route", distance |-> 60000, duration |-> 1200] }
OsrmNoDistance == [kind |-> "no_distance", distance |-> 0, duration |-> 0]
OsrmError == [kind |-> "error", distance |-> 0, duration |-> 0]
NotCalled == [kind |-> "not_called", distance |-> 0, duration |-> 0]
OsrmReplies == OsrmRoutes \cup {OsrmNoDistance, OsrmError}

\* Positions of the units and of the incidents on the axis, in kilometres.
UnitPosition(u) == 20 * u
EmergencyPosition(e) == 75 * (e - 1)

VARIABLES
    units,          \* units table: unit_id -> row
    emergencies,    \* emergencies table: request_id -> row
    routes,         \* route_calculations table, in insertion (id) order
    location_rows,  \* unit ids that have an active unit_locations row
    req,            \* per worker: the request it is serving and where it is
    routing_log,    \* routing replies consumed by the step just taken
    response,       \* response sent by the step just taken (NoResponse: none)
    unit_locations, \* in-memory registry: unit_id -> entry or NoEntry
    broadcast,      \* the last unit_location_update event emitted
    sim,            \* simulator thread: snapshot rows left in the current cycle
    now             \* wall clock, seconds

vars == <<units, emergencies, routes, location_rows, req, routing_log,
          response, unit_locations, broadcast, sim, now>>

db == <<units, emergencies, routes, location_rows>>

\* ------------------------------------------------------------- helpers
Abs(x) == IF x < 0 THEN -x ELSE x

MinOf(S) == CHOOSE x \in S : \A y \in S : x <= y

haversine_m(a, b) == 1000 * Abs(a - b)

IdleReq == [pc |-> "idle", op |-> "none", emergency_id |-> None,
            unit_id |-> None, duration |-> None]

NoResponse == [op |-> "none", code |-> 0, error |-> "", emergency_id |-> None,
               unit_id |-> None, nearest_distance_m |-> None,
               routes_cleared |-> None, route_data |-> {}]

NoCalls == [u \in Units |-> NotCalled]

NoEntry == [present |-> FALSE, progress |-> None, emergency_id |-> None,
            status |-> "NONE"]

NoBroadcast == [unit_id |-> None, progress |-> None, emergency_id |-> None,
                status |-> "NONE", source |-> "none"]

\* =====================================================================
\* Store queries and model methods
\* =====================================================================

\* Unit.query.filter_by(service_type=..., status="AVAILABLE").all()
EligibleUnits(emergency_type) ==
    { u \in Units : /\ units[u].service_type = emergency_type
                    /\ units[u].status = "AVAILABLE" }

\* Distance the unit loop of dispatch attributes to unit u: the routed
\* distance, or the haversine distance when the routing call raised.
ObservedDistance(u, e, reply) ==
    IF reply.kind = "error"
    THEN haversine_m(EmergencyPosition(e), UnitPosition(u))
    ELSE reply.distance

\* Units for which the loop obtained a distance (a reply without distance
\* makes the loop continue with the next unit).
MeasuredUnits(pool, replies) == { u \in pool : replies[u].kind # "no_distance" }

\* Variant: the distance of the farthest measured unit.
NearestRawDistance_farthest(pool, e, replies) ==
    IF MeasuredUnits(pool, replies) = {} THEN None
    ELSE -MinOf({ -ObservedDistance(u, e, replies[u]) : u \in MeasuredUnits(pool, replies) })

\* nearest_raw_distance after the loop (None when nothing was measured).
NearestRawDistance(pool, e, replies) ==
    IF MeasuredUnits(pool, replies) = {} THEN None
    ELSE MinOf({ ObservedDistance(u, e, replies[u]) : u \in MeasuredUnits(pool, replies) })

\* Variant: a unit whose routing call raised is skipped.
UnitCandidates_routedOnly(pool, e, replies) ==
    { [unit |-> u,
       distance |-> ObservedDistance(u, e, replies[u]),
       duration |-> replies[u].duration]
      : u \in { v \in MeasuredUnits(pool, replies) :
                  /\ replies[v].kind # "error"
                  /\ ObservedDistance(v, e, replies[v]) <= MAX_DISTANCE_METERS } }

\* unit_candidates after the loop.
UnitCandidates(pool, e, replies) ==
    { [unit |-> u,
       distance |-> ObservedDistance(u, e, replies[u]),
       duration |-> IF replies[u].kind = "error" THEN None ELSE replies[u].duration]
      : u \in { v \in MeasuredUnits(pool, replies) :
                  ObservedDistance(v, e, replies[v]) <= MAX_DISTANCE_METERS } }

\* Variant: any candidate within the cap, not the nearest.
SelectNearest_any(cands) == cands

\* min(unit_candidates, key=distance): the query has no ORDER BY, so among
\* candidates of equal distance any one may come first.
SelectNearest(cands) ==
    { c \in cands : \A d \in cands : c.distance <= d.distance }

ActiveIndices(rs) == { i \in 1..Len(rs) : rs[i].is_active }

\* Variant: deactivates the active rows of every incident.
deactivate_routes_for_emergency_all(rs, emergency_id) ==
    [ i \in 1..Len(rs) |->
        IF rs[i].is_active THEN [rs[i] EXCEPT !.is_active = FALSE] ELSE rs[i] ]

\* RouteCalculation.deactivate_routes_for_emergency: rows after the commit.
deactivate_routes_for_emergency(rs, emergency_id) ==
    [ i \in 1..Len(rs) |->
        IF rs[i].emergency_id = emergency_id /\ rs[i].is_active
        THEN [rs[i] EXCEPT !.is_active = FALSE] ELSE rs[i] ]

\* ... and the count it returns.
deactivated_count_for_emergency(rs, emergency_id) ==
    Cardinality({ i \in ActiveIndices(rs) : rs[i].emergency_id = emergency_id })

\* RouteCalculation.deactivate_routes_for_unit: rows after the commit.
deactivate_routes_for_unit(rs, unit_id) ==
    [ i \in 1..Len(rs) |->
        IF rs[i].unit_id = unit_id /\ rs[i].is_active
        THEN [rs[i] EXCEPT !.is_active = FALSE] ELSE rs[i] ]

NewRoute(unit_id, emergency_id, duration, geometry, timestamp) ==
    [unit_id |-> unit_id, emergency_id |-> emergency_id, is_active |-> TRUE,
     duration |-> duration, geometry |-> geometry, timestamp |-> timestamp]

Respond(op, code, error, emergency_id, unit_id) ==
    [NoResponse EXCEPT !.op = op, !.code = code, !.error = error,
                       !.emergency_id = emergency_id, !.unit_id = unit_id]

\* =====================================================================
\* POST /authority/dispatch/<emergency_id>
\* =====================================================================

\* Outcome of the route-alternative pass for the selected unit: either a
\* route with geometry (its own duration) or the geometry-less fallback
\* that keeps the duration found during unit selection.
RoutePlans(candidate_duration) ==
    { [geometry |-> "polyline", duration |-> r.duration]
        : r \in { x \in OsrmRoutes : x.distance <= MAX_DISTANCE_METERS } }
    \cup { [geometry |-> "none", duration |-> candidate_duration] }

\* A request is taken by the first free worker.
Free(w) == req[w].pc = "idle" /\ \A v \in Workers : v < w => req[v].pc # "idle"

\* Status check, unit query, distance loop and selection: the part of the
\* handler that only reads the store.
DispatchBegin(w, e, replies) ==
    /\ Free(w)
    /\ UNCHANGED <<db, unit_locations, broadcast, sim, now>>
    /\ LET em == emergencies[e]
           pool == EligibleUnits(em.emergency_type)
       IN
       IF em.status # "PENDING" /\ em.status # "APPROVED"
       THEN /\ response' = Respond("dispatch", 400, "already", e, None)
            /\ routing_log' = NoCalls
            /\ UNCHANGED req
       ELSE IF pool = {}
       THEN /\ response' = Respond("dispatch", 404, "no_available_units", e, None)
            /\ routing_log' = NoCalls
            /\ UNCHANGED req
       ELSE /\ routing_log' = [u \in Units |-> IF u \in pool THEN replies[u] ELSE NotCalled]
            /\ IF UnitCandidates(pool, e, replies) = {}
               THEN /\ response' =
                         [Respond("dispatch", 400, "none_within_50km", e, None)
                            EXCEPT !.nearest_distance_m = NearestRawDistance(pool, e, replies)]
                    /\ UNCHANGED req
               ELSE \E c \in SelectNearest(UnitCandidates(pool, e, replies)) :
                    /\ req' = [req EXCEPT ![w] =
                                 [pc |-> "dispatch_selected", op |-> "dispatch",
                                  emergency_id |-> e, unit_id |-> c.unit,
                                  duration |-> c.duration]]
                    /\ response' = NoResponse

\* RouteCalculation.deactivate_routes_for_unit(nearest_unit.unit_id): its
\* own commit, before the statuses are written.
DispatchDeactivate(w) ==
    /\ req[w].pc = "dispatch_selected"
    /\ routes' = deactivate_routes_for_unit(routes, req[w].unit_id)
    /\ req' = [req EXCEPT ![w].pc = "dispatch_deactivated"]
    /\ response' = NoResponse
    /\ routing_log' = NoCalls
    /\ UNCHANGED <<units, emergencies, location_rows,
                   unit_locations, broadcast, sim, now>>

\* Status writes and the insert of the new active route, one commit.
DispatchCommit(w, plan) ==
    /\ req[w].pc = "dispatch_deactivated"
    /\ plan \in RoutePlans(req[w].duration)
    /\ Len(routes) < MaxRoutes
    /\ LET u == req[w].unit_id
           e == req[w].emergency_id
       IN
       /\ units' = [units EXCEPT ![u].status = "DISPATCHED"]
       /\ emergencies' = [emergencies EXCEPT ![e].status = "ASSIGNED",
                                             ![e].assigned_unit = u]
       /\ routes' = Append(routes, NewRoute(u, e, plan.duration, plan.geometry, now))
       /\ response' = Respond("dispatch", 200, "", e, u)
    /\ req' = [req EXCEPT ![w] = IdleReq]
    /\ routing_log' = NoCalls
    /\ UNCHANGED <<location_rows, unit_locations, broadcast, sim, now>>

\* =====================================================================
\* POST /authority/complete/<emergency_id>
\* POST /unit/me/complete/<emergency_id>
\* =====================================================================

\* Release of the unit and the COMPLETED write, one commit.
ReleaseAndComplete(w, op, e) ==
    /\ units' = [units EXCEPT ![emergencies[e].assigned_unit].status = "AVAILABLE"]
    /\ emergencies' = [emergencies EXCEPT ![e].status = "COMPLETED"]
    /\ req' = [req EXCEPT ![w] =
                 [IdleReq EXCEPT !.pc = "complete_committed", !.op = op,
                                 !.emergency_id = e,
                                 !.unit_id = emergencies[e].assigned_unit]]
    /\ response' = NoResponse
    /\ UNCHANGED <<routes, location_rows>>

complete_emergency(w, e) ==
    /\ Free(w)
    /\ routing_log' = NoCalls
    /\ UNCHANGED <<unit_locations, broadcast, sim, now>>
    /\ IF emergencies[e].status # "ASSIGNED"
       THEN /\ response' = Respond("complete", 400, "not_assigned", e, None)
            /\ UNCHANGED <<db, req>>
       ELSE ReleaseAndComplete(w, "complete", e)

CompletableStatuses == {"ASSIGNED", "ENROUTE", "ARRIVING", "ARRIVED", "DEPARTED"}

complete_my_emergency(w, unit_id, e) ==
    /\ Free(w)
    /\ routing_log' = NoCalls
    /\ UNCHANGED <<unit_locations, broadcast, sim, now>>
    /\ IF emergencies[e].assigned_unit # unit_id
       THEN /\ response' = Respond("complete_my", 400, "not_your_emergency", e, unit_id)
            /\ UNCHANGED <<db, req>>
       ELSE IF emergencies[e].status = "COMPLETED"
       THEN /\ response' = Respond("complete_my", 200, "already_completed", e, unit_id)
            /\ UNCHANGED <<db, req>>
       ELSE IF emergencies[e].status \notin CompletableStatuses
       THEN /\ response' = Respond("complete_my", 400, "bad_status", e, unit_id)
            /\ UNCHANGED <<db, req>>
       ELSE ReleaseAndComplete(w, "complete_my", e)

\* RouteCalculation.deactivate_routes_for_emergency and the events that
\* carry its count, after the notifications.
CompleteDeactivate(w) ==
    /\ req[w].pc = "complete_committed"
    /\ routes' = deactivate_routes_for_emergency(routes, req[w].emergency_id)
    /\ response' =
          [Respond(req[w].op, 200, "", req[w].emergency_id, req[w].unit_id)
             EXCEPT !.routes_cleared =
                      deactivated_count_for_emergency(routes, req[w].emergency_id)]
    /\ req' = [req EXCEPT ![w] = IdleReq]
    /\ routing_log' = NoCalls
    /\ UNCHANGED <<units, emergencies, location_rows,
                   unit_locations, broadcast, sim, now>>

\* =====================================================================
\* POST /api/route/calculate
\* =====================================================================

\* Needs an active unit_locations row of the unit; the routing provider
\* may fail (500); on success a row is inserted with the column default
\* is_active = True and no deactivation of earlier rows.
calculate_route(unit_id, emergency_id, reply) ==
    /\ routing_log' = NoCalls
    /\ UNCHANGED <<units, emergencies, location_rows, req,
                   unit_locations, broadcast, sim, now>>
    /\ IF unit_id \notin location_rows
       THEN /\ response' = Respond("calculate_route", 404, "no_current_location",
                                   emergency_id, unit_id)
            /\ UNCHANGED routes
       ELSE IF reply.kind # "route"
       THEN /\ response' = Respond("calculate_route", 500, "routing_failed",
                                   emergency_id, unit_id)
            /\ UNCHANGED routes
       ELSE /\ Len(routes) < MaxRoutes
            /\ routes' = Append(routes, NewRoute(unit_id, emergency_id,
                                                 reply.duration, "geojson", now))
            /\ response' = Respond("calculate_route", 200, "", emergency_id, unit_id)

\* =====================================================================
\* Progress along a route (fractions are multiples of 1/PScale)
\* =====================================================================

Min2(a, b) == IF a <= b THEN a ELSE b
Max2(a, b) == IF a >= b THEN a ELSE b

\* Variant: starts at 0 instead of 0.05.
FreshDispatchProgress_fromZero(t) ==
    Min2((t * 20 * PScale) \div (300 * 100), (30 * PScale) \div 100)

\* 0.05 + (t / 300) * 0.20, capped at 0.30
FreshDispatchProgress(t) ==
    Min2((5 * PScale) \div 100 + (t * 20 * PScale) \div (300 * 100),
         (30 * PScale) \div 100)

\* Variant: capped at 0.95.
TimeBasedProgress_capped(t, estimated_duration) ==
    Min2((t * PScale) \div estimated_duration, (95 * PScale) \div 100)

\* min(elapsed / estimated_duration, 1.0)
TimeBasedProgress(t, estimated_duration) ==
    Min2((t * PScale) \div estimated_duration, PScale)

\* route_calc.duration or 300
EstimatedDuration(r) == IF r.duration = None THEN DEFAULT_DURATION ELSE r.duration

\* Position of x along the straight route from s to t, clamped to [0, 1];
\* 0 for a route of length 0.
ProjectedProgress(x, s, t) ==
    IF s = t THEN 0
    ELSE Min2(PScale, Max2(0, ((x - s) * (t - s) * PScale) \div ((t - s) * (t - s))))

\* Progress computed by GET /unit-routes/<unit_id> for route row r.
UnitRouteProgress(r) ==
    IF now - r.timestamp < FRESH_DISPATCH_SECONDS
    THEN FreshDispatchProgress(now - r.timestamp)
    ELSE TimeBasedProgress(now - r.timestamp, EstimatedDuration(r))

\* unit_routes.calculate_route_progress parses the geometry as GeoJSON: the
\* encoded polyline written by dispatch does not parse and yields 0.0.
GeoJsonProgress(r) ==
    IF r.geometry = "geojson"
    THEN ProjectedProgress(UnitPosition(r.unit_id), UnitPosition(r.unit_id),
                           IF r.emergency_id = None THEN UnitPosition(r.unit_id)
                           ELSE EmergencyPosition(r.emergency_id))
    ELSE 0

\* Progress computed by GET /active-unit-routes for route row r.
ActiveRouteProgress(r) ==
    IF now - r.timestamp < FRESH_DISPATCH_SECONDS
    THEN FreshDispatchProgress(now - r.timestamp)
    ELSE IF r.unit_id \in location_rows /\ r.geometry # "none"
    THEN Min2(GeoJsonProgress(r), PScale)
    ELSE TimeBasedProgress(now - r.timestamp, EstimatedDuration(r))

RouteData(i, progress) ==
    [route_id |-> i, unit_id |-> routes[i].unit_id,
     emergency_id |-> routes[i].emergency_id,
     elapsed_seconds |-> now - routes[i].timestamp, progress |-> progress]

\* GET /unit-routes/<unit_id>: .first() of the active rows of the unit,
\* without ORDER BY.
get_unit_routes(unit_id) ==
    /\ UNCHANGED <<db, req, unit_locations, broadcast, sim, now>>
    /\ routing_log' = NoCalls
    /\ LET active == { i \in ActiveIndices(routes) : routes[i].unit_id = unit_id } IN
       IF active = {}
       THEN response' = Respond("unit_routes", 200, "", None, unit_id)
       ELSE \E i \in active :
            response' = [Respond("unit_routes", 200, "", routes[i].emergency_id, unit_id)
                           EXCEPT !.route_data = { RouteData(i, UnitRouteProgress(routes[i])) }]

\* GET /active-unit-routes
get_active_unit_routes ==
    /\ UNCHANGED <<db, req, unit_locations, broadcast, sim, now>>
    /\ routing_log' = NoCalls
    /\ response' = [Respond("active_unit_routes", 200, "", None, None)
                      EXCEPT !.route_data =
                        { RouteData(i, ActiveRouteProgress(routes[i]))
                            : i \in ActiveIndices(routes) }]

\* The clock, observed at these instants (seconds); it sends nothing, the
\* last response stays observable.
Instants == {0, 30, 59, 60, 600}

AdvanceTime(t) ==
    /\ t \in Instants
    /\ t > now
    /\ now' = t
    /\ UNCHANGED <<db, req, routing_log, response, unit_locations, broadcast, sim>>

\* =====================================================================
\* Live-location registry and movement simulator (events.py)
\* =====================================================================

SIM_STEP == (2 * PScale) \div 100

Entry(progress, emergency_id, status) ==
    [present |-> TRUE, progress |-> progress, emergency_id |-> emergency_id,
     status |-> status]

\* update_unit_location: registry write and the two emits.
LocationEvent(unit_id, progress, emergency_id, status, source) ==
    [unit_id |-> unit_id, progress |-> progress, emergency_id |-> emergency_id,
     status |-> status, source |-> source]

\* Status label derived from the progress by the simulator.
SimStatus(progress) ==
    IF progress >= PScale THEN "ARRIVED"
    ELSE IF progress > (8 * PScale) \div 10 THEN "ARRIVING"
    ELSE IF progress > (2 * PScale) \div 10 THEN "ENROUTE"
    ELSE "DEPARTED"

\* Variant: the progress stops one step short of the destination.
SimProgress_short(entry, emergency_id) ==
    IF entry.present /\ entry.emergency_id = emergency_id
    THEN Min2(PScale - SIM_STEP, entry.progress + SIM_STEP)
    ELSE 0

\* Progress of one simulator iteration for (unit, emergency): continue the
\* entry of the same emergency, otherwise start again from 0.
SimProgress(entry, emergency_id) ==
    IF entry.present /\ entry.emergency_id = emergency_id
    THEN Min2(PScale, entry.progress + SIM_STEP)
    ELSE 0

\* Emergency.query.filter_by(status="ASSIGNED").all() at the start of a cycle.
AssignedSnapshot ==
    LET ids == { e \in Emergencies : emergencies[e].status = "ASSIGNED" }
        F[k \in 0..NumEmergencies] ==
            IF k = 0 THEN <<>>
            ELSE IF k \in ids
                 THEN Append(F[k - 1], [emergency_id |-> k,
                                        unit_id |-> emergencies[k].assigned_unit])
                 ELSE F[k - 1]
    IN F[NumEmergencies]

SimCycleStart ==
    /\ sim = <<>>
    /\ AssignedSnapshot # <<>>
    /\ sim' = AssignedSnapshot
    /\ response' = NoResponse
    /\ routing_log' = NoCalls
    /\ UNCHANGED <<db, req, unit_locations, broadcast, now>>

\* One iteration of the loop over the snapshot.
SimStep ==
    /\ sim # <<>>
    /\ LET e == Head(sim).emergency_id
           u == Head(sim).unit_id
           progress == SimProgress(unit_locations[u], e)
       IN
       /\ unit_locations' = [unit_locations EXCEPT
                               ![u] = Entry(progress, e, SimStatus(progress))]
       /\ broadcast' = LocationEvent(u, progress, e, SimStatus(progress), "simulator")
    /\ sim' = Tail(sim)
    /\ response' = NoResponse
    /\ routing_log' = NoCalls
    /\ UNCHANGED <<db, req, now>>

\* Positions a location update may report.
GpsPositions == {0, 20, 40}

\* calculate_route_progress_for_unit: the values it can return for a unit
\* reporting position x (.first() picks any ASSIGNED incident of the unit,
\* then the latest active route of the pair).
RouteProgressForUnit(unit_id, x) ==
    LET assigned == { e \in Emergencies : /\ emergencies[e].assigned_unit = unit_id
                                          /\ emergencies[e].status = "ASSIGNED" }
        Latest(e) == { i \in ActiveIndices(routes) :
                         /\ routes[i].unit_id = unit_id
                         /\ routes[i].emergency_id = e
                         /\ \A j \in ActiveIndices(routes) :
                              (routes[j].unit_id = unit_id /\ routes[j].emergency_id = e)
                                 => routes[j].timestamp <= routes[i].timestamp }
    IN
    IF assigned = {} THEN {0}
    ELSE UNION { IF Latest(e) = {} THEN {0}
                 ELSE { IF routes[i].geometry = "none" THEN 0
                        ELSE ProjectedProgress(x, UnitPosition(unit_id),
                                               EmergencyPosition(e))
                        : i \in Latest(e) }
                 : e \in assigned }

\* socket event 'update_unit_location': update_unit_location(unit_id, lat,
\* lng, status) with progress=None and emergency_id=None.
handle_update_unit_location(unit_id, x, status) ==
    /\ \E progress \in RouteProgressForUnit(unit_id, x) :
       /\ unit_locations' = [unit_locations EXCEPT
                               ![unit_id] = Entry(progress, None, status)]
       /\ broadcast' = LocationEvent(unit_id, progress, None, status, "manual")
    /\ response' = NoResponse
    /\ routing_log' = NoCalls
    /\ UNCHANGED <<db, req, sim, now>>

\* =====================================================================
\* Initial state and the request-handler specification
\* =====================================================================

\* The store after intake: every unit AVAILABLE, every incident PENDING and
\* unassigned, no route rows, no unit_locations rows; nothing in memory.
InitWith(unit_types, emergency_types) ==
    /\ units \in [Units -> [status : {"AVAILABLE"}, service_type : unit_types]]
    /\ emergencies \in [Emergencies -> [status : {"PENDING"},
                                         emergency_type : emergency_types,
                                         assigned_unit : {None}]]
    /\ routes = <<>>
    /\ location_rows = {}
    /\ req = [w \in Workers |-> IdleReq]
    /\ routing_log = NoCalls
    /\ response = NoResponse
    /\ unit_locations = [u \in Units |-> NoEntry]
    /\ broadcast = NoBroadcast
    /\ sim = <<>>
    /\ now = 0

Init == InitWith({"AMBULANCE"}, {"AMBULANCE"})

\* Units and incidents of every service type.
InitTyped == InitWith(ServiceTypes, ServiceTypes)

\* Routing replies drawn by a specification: the units of the pool get a
\* reply from replySet, the others are not asked.
RepliesFor(e, replySet) ==
    LET pool == EligibleUnits(emergencies[e].emergency_type) IN
    { [u \in Units |-> IF u \in pool THEN f[u] ELSE NotCalled]
        : f \in [pool -> replySet] }

NearReply == [kind |-> "route", distance |-> 30000, duration |-> 240]

\* Route-pass outcomes with a geometry in geoms and a duration in durations.
Plans(geoms, durations) == [geometry : geoms, duration : durations]

Durations == {None} \cup { r.duration : r \in OsrmRoutes }

\* Handlers served by the workers ws, with the routing provider answering
\* from replySet and the route pass ending in one of the outcomes plans.
Handlers(ws, replySet, plans) ==
    \/ \E w \in ws, e \in Emergencies :
          \E replies \in RepliesFor(e, replySet) : DispatchBegin(w, e, replies)
    \/ \E w \in ws : DispatchDeactivate(w)
    \/ \E w \in ws :
          \E plan \in RoutePlans(req[w].duration) \cap plans :
             DispatchCommit(w, plan)
    \/ \E w \in ws, e \in Emergencies : complete_emergency(w, e)
    \/ \E w \in ws, u \in Units, e \in Emergencies : complete_my_emergency(w, u, e)
    \/ \E w \in ws : CompleteDeactivate(w)
    \/ \E u \in Units, e \in Emergencies \cup {None}, r \in {NearReply, OsrmError} :
          calculate_route(u, e, r)

\* Concurrent request handlers over units and incidents of one service type.
Next == Handlers(Workers, {NearReply}, Plans({"none"}, Durations))

Spec == Init /\ [][Next]_vars

\* One request at a time, every service type, every routing reply.
NextDispatch == Handlers({1}, OsrmReplies, Plans({"none"}, Durations))

SpecDispatch == InitTyped /\ [][NextDispatch]_vars

\* One request at a time, the clock, and the route queries.
NextQuery ==
    \/ Handlers({1}, {NearReply, OsrmError}, Plans({"none", "polyline"}, Durations))
    \/ \E t \in Instants : AdvanceTime(t)
    \/ \E u \in Units : get_unit_routes(u)
    \/ get_active_unit_routes

SpecQuery == Init /\ [][NextQuery]_vars

\* One request at a time, the simulator thread and manual location updates;
\* no new cycle starts once a unit has advanced MaxSimSteps steps.
WithinHorizon ==
    \A u \in Units : unit_locations[u].progress < MaxSimSteps * SIM_STEP

NextTrack ==
    \/ Handlers({1}, {NearReply}, Plans({"none", "polyline"}, {NearReply.duration}))
    \/ \E u \in Units : get_unit_routes(u)
    \/ WithinHorizon /\ SimCycleStart
    \/ SimStep
    \/ \E u \in Units, x \in GpsPositions, st \in {"ENROUTE"} :
          handle_update_unit_location(u, x, st)

SpecTrack == Init /\ [][NextTrack]_vars

\* =====================================================================
\* Traffic evaluation of a route (authority_routes.py)
\* =====================================================================

\* Overlap lengths in metres a level can have along a route.
OverlapMeters == {0, 60, 119, 120, 300}

\* jam_overlap_m of evaluate_route_traffic_penalty (no segment is loaded
\* with level BLOCKED: _load_active_traffic_segments turns it into HIGH).
JamOverlaps ==
    [LOW : OverlapMeters, MEDIUM : OverlapMeters, HIGH : OverlapMeters, BLOCKED : {0}]

\* jam_hit_counts of the same evaluation: always a dict with the four keys.
JamHitCounts(jam_overlap_m) ==
    [level \in {"LOW", "MEDIUM", "HIGH", "BLOCKED"} |->
        IF jam_overlap_m[level] > 0 THEN 1 ELSE 0]

\* route_jam_severity_rank; "not jam_hit_counts" is the empty dict.
route_jam_severity_rank(jam_hit_counts, jam_overlap_m) ==
    LET low_overlap == jam_overlap_m.LOW
        med_overlap == jam_overlap_m.MEDIUM
        high_overlap == jam_overlap_m.HIGH
    IN
    IF DOMAIN jam_hit_counts = {} THEN 1
    ELSE IF high_overlap >= 120 THEN 3
    ELSE IF med_overlap >= 120 THEN 2
    ELSE IF low_overlap + med_overlap + high_overlap <= 0 THEN 1
    ELSE IF high_overlap > Max2(med_overlap, low_overlap) THEN 3
    ELSE IF med_overlap > Max2(high_overlap, low_overlap) THEN 2
    ELSE 1

\* The traffic evaluation of one route of the route pass, as logged.
EvaluatedRoute(jam_overlap_m) ==
    [kind |-> "candidate",
     jam_overlap_m |-> jam_overlap_m,
     jam_hit_counts |-> JamHitCounts(jam_overlap_m),
     jam_rank |-> route_jam_severity_rank(JamHitCounts(jam_overlap_m), jam_overlap_m)]

\* evaluate_route_traffic_penalty followed by route_jam_severity_rank for
\* one route whose overlaps with the active traffic segments are given.
EvaluateRoute(jam_overlap_m) ==
    /\ routing_log' = <<EvaluatedRoute(jam_overlap_m)>>
    /\ response' = NoResponse
    /\ UNCHANGED <<db, req, unit_locations, broadcast, sim, now>>

\* The traffic evaluation over every combination of overlaps.
NextRank == \E jam_overlap_m \in JamOverlaps : EvaluateRoute(jam_overlap_m)

SpecRank == Init /\ [][NextRank]_vars

\* =====================================================================
\* Route pass of dispatch for the selected unit (authority_routes.py)
\* =====================================================================

CostScale == 10000
MAX_WAYPOINTS == 245

Clear == [LOW |-> 0, MEDIUM |-> 0, HIGH |-> 0, BLOCKED |-> 0]

\* A route of fetch_route_candidates_expanded: its encoded geometry (a
\* distinct string per route, here a number), the number of points the
\* geometry encodes, its overlaps with the active traffic segments and its
\* minimum distance in metres to an active HIGH segment.
Route(geometry, distance, duration, points, jam_overlap_m, high_distance_m) ==
    [kind |-> "candidate", geometry |-> geometry, distance |-> distance,
     duration |-> duration, points |-> points, jam_overlap_m |-> jam_overlap_m,
     high_distance_m |-> high_distance_m]

\* Routes the providers may return between a unit and an incident.
RouteCandidates ==
    { Route(1, 30000, 900, 245, Clear, 1000),
      Route(2, 28000, 240, 300, [Clear EXCEPT !.HIGH = 300], 50),
      Route(3, 29000, 600, 246, [Clear EXCEPT !.MEDIUM = 300], 1000),
      Route(4, 30000, 240, 2, Clear, 80),
      Route(5, 60000, 120, 2, Clear, 1000),
      Route(6, 31000, 600, 247, [Clear EXCEPT !.LOW = 120, !.HIGH = 60], 50),
      Route(7, 27000, 200, 2, [Clear EXCEPT !.LOW = 1000, !.HIGH = 120], 50) }

\* alt_routes: up to MaxAlternatives distinct routes in any order; the
\* empty list when every routing call failed.
AltRoutes ==
    UNION { { a \in [1..n -> RouteCandidates] :
                \A i, j \in 1..n : i # j => a[i].geometry # a[j].geometry }
            : n \in 0..MaxAlternatives }

\* route_congestion_score, in 1/CostScale.
route_congestion_score(jam_overlap_m) ==
    LET total == jam_overlap_m.LOW + jam_overlap_m.MEDIUM + jam_overlap_m.HIGH IN
    IF total <= 0 THEN (2 * CostScale) \div 10
    ELSE ((2 * jam_overlap_m.LOW + 6 * jam_overlap_m.MEDIUM + 10 * jam_overlap_m.HIGH)
            * (CostScale \div 10)) \div total

\* norm(value, lo, hi), in 1/CostScale.
norm(value, lo, hi) ==
    IF hi <= lo THEN 0 ELSE ((value - lo) * CostScale) \div (hi - lo)

\* traffic_score = dur + min(penalty_seconds, dur * 0.35), in 1/100 s.
traffic_score(r) ==
    100 * r.duration
      + Min2(6 * r.jam_overlap_m.LOW + 16 * r.jam_overlap_m.MEDIUM
               + 35 * r.jam_overlap_m.HIGH,
             35 * r.duration)

jam_rank(r) == route_jam_severity_rank(JamHitCounts(r.jam_overlap_m), r.jam_overlap_m)

\* Indices of alt_routes the loop appends to non_blocked_candidates:
\* blocked_segments is empty and no segment has level BLOCKED, so only the
\* distance cap discards a route.
non_blocked_candidates(alt_routes) ==
    { i \in 1..Len(alt_routes) : alt_routes[i].distance <= MAX_DISTANCE_METERS }

\* Variant: every candidate within the cap competes, whatever its rank.
ranked_candidates_any(alt_routes) == non_blocked_candidates(alt_routes)

\* ranked_candidates: the candidates of minimum jam_rank.
ranked_candidates(alt_routes) ==
    LET nb == non_blocked_candidates(alt_routes)
        min_rank == MinOf({ jam_rank(alt_routes[i]) : i \in nb })
    IN { i \in nb : jam_rank(alt_routes[i]) = min_rank }

MaxOf(S) == CHOOSE x \in S : \A y \in S : y <= x

\* candidate["combined_cost"] of every ranked candidate, in 1/CostScale.
combined_cost(alt_routes, ranked) ==
    LET Weighted(durs, congs) ==
            [ i \in ranked |->
                (55 * norm(route_congestion_score(alt_routes[i].jam_overlap_m),
                           MinOf(congs), MaxOf(congs))
                 + 45 * norm(alt_routes[i].duration, MinOf(durs), MaxOf(durs)))
                \div 100 ]
    IN Weighted({ alt_routes[j].duration : j \in ranked },
                { route_congestion_score(alt_routes[j].jam_overlap_m) : j \in ranked })

\* sorted(ranked_candidates, key=(combined_cost, traffic_score))[0]: the
\* sort is stable, equal keys keep the order of alt_routes.
first_ordered_candidate(alt_routes, ranked, cost) ==
    LET Before(i, j) ==
            \/ cost[i] < cost[j]
            \/ /\ cost[i] = cost[j]
               /\ \/ traffic_score(alt_routes[i]) < traffic_score(alt_routes[j])
                  \/ /\ traffic_score(alt_routes[i]) = traffic_score(alt_routes[j])
                     /\ i < j
    IN CHOOSE i \in ranked : \A j \in ranked \ {i} : Before(i, j)

\* min(non_blocked_candidates, key=duration): the first of minimum duration.
shortest_candidate(alt_routes, nb) ==
    CHOOSE i \in nb : \A j \in nb \ {i} :
        \/ alt_routes[i].duration < alt_routes[j].duration
        \/ alt_routes[i].duration = alt_routes[j].duration /\ i < j

\* Variant: the shortest candidate never replaces the selected one.
preferred_candidate_never(alt_routes, cost, selected, shortest) == selected

\* The preference tweak: the shortest candidate replaces the selected one
\* when its rank is 1 and its cost is within 0.08 of the selected cost.  A
\* candidate outside ranked_candidates has no combined_cost and defaults
\* to 1.0.
preferred_candidate(alt_routes, cost, selected, shortest) ==
    IF /\ jam_rank(alt_routes[shortest]) <= 1
       /\ (IF shortest \in DOMAIN cost THEN cost[shortest] ELSE CostScale)
             <= cost[selected] + (8 * CostScale) \div 100
    THEN shortest
    ELSE selected

\* Index in alt_routes of the route the pass selects, 0 when it keeps the
\* geometry-less fallback.
selected_route(alt_routes) ==
    LET Among(nb, ranked) ==
            LET Costed(cost) ==
                    preferred_candidate(alt_routes, cost,
                        first_ordered_candidate(alt_routes, ranked, cost),
                        shortest_candidate(alt_routes, nb))
            IN Costed(combined_cost(alt_routes, ranked))
    IN IF non_blocked_candidates(alt_routes) = {} THEN 0
       ELSE Among(non_blocked_candidates(alt_routes), ranked_candidates(alt_routes))

\* Variant: every point of the geometry is kept.
StoredWaypoints_uncapped(n) == [ i \in 1..n |-> i ]

\* Points kept of a geometry of n points: the 1-based positions
\* int(i * (n / 245)) + 1 for i in range(245) when n > 245, else all.
StoredWaypoints(n) ==
    IF n > MAX_WAYPOINTS
    THEN [ i \in 1..MAX_WAYPOINTS |-> ((i - 1) * n) \div MAX_WAYPOINTS + 1 ]
    ELSE [ i \in 1..n |-> i ]

\* best.get("geometry") when no route was selected.
NoGeometry == [id |-> None, points |-> 0]

\* polyline.decode(route_geometry): the points the string encodes, in order.
polyline_decode(route_geometry) == [ i \in 1..route_geometry.points |-> i ]

\* The waypoints kept of a decoded geometry.
SampleWaypoints(decoded) ==
    LET kept == StoredWaypoints(Len(decoded)) IN
    [ i \in DOMAIN kept |-> decoded[kept[i]] ]

\* Statuses, the new active row and the response for the route of index s
\* in alt_routes (0: none) and the waypoints kept of it: one commit.
CommitRoute(w, alt_routes, s, waypoints) ==
    LET u == req[w].unit_id
        e == req[w].emergency_id
    IN
    /\ units' = [units EXCEPT ![u].status = "DISPATCHED"]
    /\ emergencies' = [emergencies EXCEPT ![e].status = "ASSIGNED",
                                          ![e].assigned_unit = u]
    /\ routes' = Append(routes,
           NewRoute(u, e,
                    IF s = 0 THEN req[w].duration ELSE alt_routes[s].duration,
                    IF s = 0 THEN "none" ELSE "polyline", now)
           @@ [route_geometry |-> IF s = 0 THEN NoGeometry
                                  ELSE [id |-> alt_routes[s].geometry,
                                        points |-> alt_routes[s].points],
               cached_waypoints |-> waypoints,
               waypoint_count |-> Len(waypoints)])
    /\ response' = Respond("dispatch", 200, "", e, u)
           @@ [waypoint_count |-> Len(waypoints),
               routing_source |-> IF Len(waypoints) > 0 THEN "osrm_full_geometry"
                                  ELSE "euclidean_fallback"]

\* Waypoints kept of the route of index s in alt_routes.
RouteWaypoints(alt_routes, s) ==
    IF s = 0 THEN <<>>
    ELSE SampleWaypoints(polyline_decode([id |-> alt_routes[s].geometry,
                                          points |-> alt_routes[s].points]))

\* The handler from the route pass to the response: alt_routes is what the
\* providers returned for the selected unit, the route pass picks among
\* them, the waypoints are sampled, and the statuses and the new active
\* row are written.
DispatchCommitRouted(w, alt_routes) ==
    /\ req[w].pc = "dispatch_deactivated"
    /\ Len(routes) < MaxRoutes
    /\ LET Routed(s) == LET Sampled(waypoints) == CommitRoute(w, alt_routes, s, waypoints)
                        IN Sampled(RouteWaypoints(alt_routes, s))
       IN Routed(selected_route(alt_routes))
    /\ req' = [req EXCEPT ![w] = IdleReq]
    /\ routing_log' = alt_routes
    /\ UNCHANGED <<location_rows, unit_locations, broadcast, sim, now>>

\* One dispatcher request at a time with the route pass spelled out; the
\* per-unit distance lookup answers or fails.
NextRoute ==
    \/ \E e \in Emergencies :
          \E replies \in RepliesFor(e, {NearReply, OsrmError}) : DispatchBegin(1, e, replies)
    \/ DispatchDeactivate(1)
    \/ /\ req[1].pc = "dispatch_deactivated"
       /\ \E alt_routes \in AltRoutes : DispatchCommitRouted(1, alt_routes)
    \/ \E e \in Emergencies : complete_emergency(1, e)
    \/ CompleteDeactivate(1)

SpecRoute == Init /\ [][NextRoute]_vars

\* ---------------------------------------------------------------------
\* The route pass alone, over lists of up to MaxPassRoutes routes whose
\* durations and overlaps spread the normalised costs.
\* ---------------------------------------------------------------------

PassRoutes ==
    { Route(1, 30000, 300, 2, Clear, 1000),
      Route(2, 29000, 240, 2, [Clear EXCEPT !.LOW = 1000, !.MEDIUM = 100], 1000),
      Route(3, 31000, 900, 2, Clear, 1000),
      Route(4, 32000, 900, 2, [Clear EXCEPT !.LOW = 120, !.HIGH = 60], 50),
      Route(5, 28000, 200, 2, [Clear EXCEPT !.HIGH = 300], 50),
      Route(6, 28500, 250, 2, [Clear EXCEPT !.MEDIUM = 300], 1000) }

PassLists ==
    UNION { { a \in [1..n -> PassRoutes] :
                \A i, j \in 1..n : i # j => a[i].geometry # a[j].geometry }
            : n \in 1..MaxPassRoutes }

\* The pass over alt_routes: the log keeps the candidates, the answer the
\* geometry of the route taken into best.
RunRoutePass(alt_routes) ==
    /\ routing_log' = alt_routes
    /\ response' = [NoResponse EXCEPT !.op = "route_pass"]
                      @@ [selected |-> alt_routes[selected_route(alt_routes)].geometry]
    /\ UNCHANGED <<db, req, unit_locations, broadcast, sim, now>>

NextPass == \E alt_routes \in PassLists : RunRoutePass(alt_routes)

SpecPass == Init /\ [][NextPass]_vars

\* =====================================================================
\* fetch_route_candidates_expanded (authority_routes.py)
\* =====================================================================

MAX_CANDIDATES == 24
VIA_POINTS == 18

\* Answer of a provider call: it raised, or the geometries of its routes.
Answer(failed, geometries) == [failed |-> failed, geometries |-> geometries]

Failed == Answer(TRUE, <<>>)

\* Answers of fetch_osrm_alternative_routes: it raised, or the geometries
\* of the routes it returned (1, 2, ...).
BaseAnswers ==
    {Failed} \cup { Answer(FALSE, [ i \in 1..n |-> i ]) : n \in 0..MaxBaseRoutes }

\* Answers of fetch_openrouteservice_alternatives (it returns [] itself
\* when its call fails): geometries 201, 202, ..., or routes the primary
\* provider returned too.
OrsAnswers ==
    {Failed} \cup { Answer(FALSE, [ i \in 1..n |-> 200 + i ]) : n \in 0..MaxOrsRoutes }
             \cup { Answer(FALSE, [ i \in 1..n |-> i ]) : n \in 1..MaxOrsRoutes }

\* Answer of one fetch_osrm_route_with_via call.
ViaReply(kind, geometry) == [kind |-> kind, geometry |-> geometry]

\* Answers of the VIA_POINTS probes: n of them (the first, or the last)
\* return a route of their own, the others return no route, raise, or
\* return the first route of the primary provider again.
ViaAnswers ==
    { [ k \in 1..VIA_POINTS |->
          IF (IF first THEN k <= n ELSE k > VIA_POINTS - n)
          THEN ViaReply("route", 100 + k)
          ELSE IF other = "duplicate" THEN ViaReply("route", 1)
          ELSE ViaReply(other, None) ]
      : n \in 0..VIA_POINTS, first \in BOOLEAN, other \in {"none", "error", "duplicate"} }

Elements(seq) == { seq[i] : i \in DOMAIN seq }

\* for route in routes: if geom not in seen_geometries: candidates.append,
\* from position k of geometries on.
RECURSIVE MergeFrom(_, _, _)
MergeFrom(k, candidates, geometries) ==
    IF k > Len(geometries) THEN candidates
    ELSE MergeFrom(k + 1,
                   IF geometries[k] \in Elements(candidates) THEN candidates
                   ELSE Append(candidates, geometries[k]),
                   geometries)

MergeRoutes(candidates, geometries) == MergeFrom(1, candidates, geometries)

\* The loop over the via points from probe k on: a probe that raises or
\* returns no route is skipped; after a probe that returned a route the
\* loop breaks when len(candidates) >= 24.
RECURSIVE ViaLoopFrom(_, _, _)
ViaLoopFrom(k, candidates, via) ==
    IF k > VIA_POINTS THEN candidates
    ELSE IF via[k].kind # "route" THEN ViaLoopFrom(k + 1, candidates, via)
    ELSE LET Merged(merged) ==
                 IF Len(merged) >= MAX_CANDIDATES THEN merged
                 ELSE ViaLoopFrom(k + 1, merged, via)
         IN Merged(MergeRoutes(candidates, <<via[k].geometry>>))

\* The list the generator returns for the three providers' answers; a
\* provider that raised contributes no geometries.
fetch_route_candidates_expanded(base, via, ors) ==
    MergeRoutes(ViaLoopFrom(1, MergeRoutes(<<>>, base.geometries), via),
                ors.geometries)

\* A call of the generator waiting for the providers' answers drawn for it.
PendingFetch(base, via, ors) ==
    [NoResponse EXCEPT !.op = "fetch_candidates"]
      @@ [base |-> base, via |-> via, ors |-> ors]

\* The store after intake and one call of the generator about to run.
InitCandidates ==
    /\ units = [u \in Units |-> [status |-> "AVAILABLE", service_type |-> "AMBULANCE"]]
    /\ emergencies = [e \in Emergencies |->
                        [status |-> "PENDING", emergency_type |-> "AMBULANCE",
                         assigned_unit |-> None]]
    /\ routes = <<>>
    /\ location_rows = {}
    /\ req = [w \in Workers |-> IdleReq]
    /\ routing_log = NoCalls
    /\ response \in { PendingFetch(base, via, ors) :
                         base \in BaseAnswers, via \in ViaAnswers, ors \in OrsAnswers }
    /\ unit_locations = [u \in Units |-> NoEntry]
    /\ broadcast = NoBroadcast
    /\ sim = <<>>
    /\ now = 0

\* The call runs: the log keeps the list returned.
FetchCandidates ==
    /\ response.op = "fetch_candidates"
    /\ LET Returned(candidates) ==
               routing_log' = [ i \in 1..Len(candidates) |->
                                  [kind |-> "geometry", geometry |-> candidates[i]] ]
       IN Returned(fetch_route_candidates_expanded(response.base, response.via,
                                                   response.ors))
    /\ response' = [response EXCEPT !.op = "route_candidates"]
    /\ UNCHANGED <<db, req, unit_locations, broadcast, sim, now>>

NextCandidates == FetchCandidates

SpecCandidates == InitCandidates /\ [][NextCandidates]_vars

\* The clock of the progress specification, one second at a time.
Tick ==
    /\ now < MaxElapsed
    /\ now' = now + 1
    /\ response' = NoResponse
    /\ routing_log' = NoCalls
    /\ UNCHANGED <<db, req, unit_locations, broadcast, sim>>

\* The store right after the dispatch of unit 1 to incident 1 at time 0,
\* for every duration and geometry the dispatch can have stored.
InitDispatched ==
    /\ units = [u \in Units |->
                  [status |-> IF u = 1 THEN "DISPATCHED" ELSE "AVAILABLE",
                   service_type |-> "AMBULANCE"]]
    /\ emergencies = [e \in Emergencies |->
                  [status |-> IF e = 1 THEN "ASSIGNED" ELSE "PENDING",
                   emergency_type |-> "AMBULANCE",
                   assigned_unit |-> IF e = 1 THEN 1 ELSE None]]
    /\ \E plan \in Plans({"none", "polyline"}, Durations) :
          routes = <<NewRoute(1, 1, plan.duration, plan.geometry, 0)>>
    /\ location_rows = {}
    /\ req = [w \in Workers |-> IdleReq]
    /\ routing_log = NoCalls
    /\ response = NoResponse
    /\ unit_locations = [u \in Units |-> NoEntry]
    /\ broadcast = NoBroadcast
    /\ sim = <<>>
    /\ now = 0

\* The route queries at every second after a dispatch.
NextProgress ==
    \/ Tick
    \/ \E u \in Units : get_unit_routes(u)
    \/ get_active_unit_routes

SpecProgress == InitDispatched /\ [][NextProgress]_vars

\* =====================================================================
\* The simulator thread, statement by statement (events.py run_simulation)
\* =====================================================================

\* In this part sim is the thread's position and locals: pc, the rows of
\* the snapshot still to visit, the progress computed for the head row,
\* and the registry entry the thread last read or wrote for it.
SimThread(pc, rows, progress, current_location) ==
    [pc |-> pc, rows |-> rows, progress |-> progress,
     current_location |-> current_location]

\* Top of `while True`.
AtLoopTop == SimThread("loop", <<>>, None, NoEntry)

\* The store after the dispatch of unit 1 to incident 1, the simulator
\* thread started.
InitSimulation ==
    /\ units = [u \in Units |->
                  [status |-> IF u = 1 THEN "DISPATCHED" ELSE "AVAILABLE",
                   service_type |-> "AMBULANCE"]]
    /\ emergencies = [e \in Emergencies |->
                  [status |-> IF e = 1 THEN "ASSIGNED" ELSE "PENDING",
                   emergency_type |-> "AMBULANCE",
                   assigned_unit |-> IF e = 1 THEN 1 ELSE None]]
    /\ \E plan \in Plans({"none", "polyline"}, {NearReply.duration}) :
          routes = <<NewRoute(1, 1, plan.duration, plan.geometry, 0)>>
    /\ location_rows = {}
    /\ req = [w \in Workers |-> IdleReq]
    /\ routing_log = NoCalls
    /\ response = NoResponse
    /\ unit_locations = [u \in Units |-> NoEntry]
    /\ broadcast = NoBroadcast
    /\ sim = AtLoopTop
    /\ now = 0

\* A step of the thread that touches neither the store nor the registry.
ThreadOnly ==
    /\ response' = NoResponse
    /\ routing_log' = NoCalls
    /\ UNCHANGED <<db, req, unit_locations, broadcast, now>>

\* `try:` is entered: a tick is attempted.
EnterTry ==
    /\ sim.pc = "loop"
    /\ sim' = [sim EXCEPT !.pc = "try"]
    /\ ThreadOnly

\* Emergency.query.filter_by(status="ASSIGNED").all()
QueryAssigned ==
    /\ sim.pc = "try"
    /\ sim' = SimThread("cycle", AssignedSnapshot, None, NoEntry)
    /\ ThreadOnly

\* current_location = unit_locations.get(unit_id) and the branch on it:
\* continue the entry of the same emergency, or store a fresh entry.
ReadEntry ==
    /\ sim.pc = "cycle"
    /\ sim.rows # <<>>
    /\ LET e == Head(sim.rows).emergency_id
           u == Head(sim.rows).unit_id
           current_location == unit_locations[u]
           continuing == current_location.present /\ current_location.emergency_id = e
           entry == IF continuing THEN current_location ELSE Entry(0, e, "ENROUTE")
       IN
       /\ unit_locations' = [unit_locations EXCEPT ![u] = entry]
       /\ sim' = [sim EXCEPT !.pc = "computed",
                             !.progress = SimProgress(current_location, e),
                             !.current_location = entry]
    /\ response' = NoResponse
    /\ routing_log' = NoCalls
    /\ UNCHANGED <<db, req, broadcast, now>>

\* update_unit_location(unit_id, ..., status, progress=progress,
\* emergency_id=emergency.request_id): the entry is replaced, the event sent.
CallUpdateUnitLocation ==
    /\ sim.pc = "computed"
    /\ LET e == Head(sim.rows).emergency_id
           u == Head(sim.rows).unit_id
           entry == Entry(sim.progress, e, SimStatus(sim.progress))
       IN
       /\ unit_locations' = [unit_locations EXCEPT ![u] = entry]
       /\ broadcast' = LocationEvent(u, sim.progress, e, SimStatus(sim.progress),
                                     "simulator")
       /\ sim' = [sim EXCEPT !.pc = "updated", !.current_location = entry]
    /\ response' = NoResponse
    /\ routing_log' = NoCalls
    /\ UNCHANGED <<db, req, now>>

\* unit_locations[unit_id]['progress'] = progress ... ['emergency_id'] =
\* emergency.request_id: the fields of whatever entry the registry holds
\* now are overwritten; the loop goes to the next row.
StoreProgress ==
    /\ sim.pc = "updated"
    /\ LET e == Head(sim.rows).emergency_id
           u == Head(sim.rows).unit_id
           entry == [unit_locations[u] EXCEPT !.progress = sim.progress,
                                              !.status = SimStatus(sim.progress),
                                              !.emergency_id = e]
       IN
       /\ unit_locations' = [unit_locations EXCEPT ![u] = entry]
       /\ sim' = SimThread("cycle", Tail(sim.rows), None, NoEntry)
    /\ response' = NoResponse
    /\ routing_log' = NoCalls
    /\ UNCHANGED <<db, req, broadcast, now>>

\* simulate_movement_cycle returns; time.sleep(2) begins.
CycleReturns ==
    /\ sim.pc = "cycle"
    /\ sim.rows = <<>>
    /\ sim' = [sim EXCEPT !.pc = "sleep2"]
    /\ ThreadOnly

\* Variant: the exception leaves the loop and the thread ends.
CatchException_exits ==
    /\ sim.pc \in {"try", "cycle", "computed", "updated"}
    /\ sim' = SimThread("exited", <<>>, None, NoEntry)
    /\ ThreadOnly

\* A statement inside `try:` raises (the query, the app context, an emit):
\* `except Exception` prints it and time.sleep(5) begins.
CatchException ==
    /\ sim.pc \in {"try", "cycle", "computed", "updated"}
    /\ sim' = SimThread("sleep5", <<>>, None, NoEntry)
    /\ ThreadOnly

\* time.sleep returns; back to the top of the loop.
SleepReturns ==
    /\ sim.pc \in {"sleep2", "sleep5"}
    /\ sim' = AtLoopTop
    /\ ThreadOnly

\* The steps of the simulator thread.
run_simulation ==
    \/ EnterTry
    \/ QueryAssigned
    \/ ReadEntry
    \/ CallUpdateUnitLocation
    \/ StoreProgress
    \/ CycleReturns
    \/ CatchException
    \/ SleepReturns

\* The simulator thread and the socket handler of live location updates.
NextSimulation ==
    \/ run_simulation
    \/ \E u \in Units, x \in GpsPositions, st \in {"ENROUTE"} :
          handle_update_unit_location(u, x, st)

SpecSimulation == InitSimulation /\ [][NextSimulation]_vars

\* The thread is a daemon thread of the process: it is scheduled as long
\* as the process runs, every statement of it returns or raises, and every
\* sleep ends; nothing is assumed about which statements raise.
FairSimulation == SpecSimulation /\ WF_vars(run_simulation)

\* The simulator thread alone: incident 1 stays ASSIGNED to unit 1 and no
\* location update arrives from outside the thread.
NextQuiet == run_simulation

SpecQuiet == InitSimulation /\ [][NextQuiet]_vars

\* The thread keeps being scheduled, and a statement of the tick that is
\* attempted again and again does not raise every time: ticks that run to
\* their end keep happening, whatever fails in between.
FairQuiet ==
    /\ SpecQuiet
    /\ WF_vars(run_simulation)
    /\ SF_vars(QueryAssigned)
    /\ SF_vars(ReadEntry)
    /\ SF_vars(CallUpdateUnitLocation)
    /\ SF_vars(StoreProgress)

\* ---------------------------------------------------------------------
\* Request handlers, one at a time, over a store whose route
\* deactivations may raise: the model method rolls back, prints and
\* returns 0, and its caller continues.
\* ---------------------------------------------------------------------

\* deactivate_routes_for_unit raised inside dispatch: no row changes.
DispatchDeactivateFails(w) ==
    /\ req[w].pc = "dispatch_selected"
    /\ req' = [req EXCEPT ![w].pc = "dispatch_deactivated"]
    /\ response' = NoResponse
    /\ routing_log' = NoCalls
    /\ UNCHANGED <<db, unit_locations, broadcast, sim, now>>

\* deactivate_routes_for_emergency raised inside a completion: no row
\* changes, and the reported count is 0.
CompleteDeactivateFails(w) ==
    /\ req[w].pc = "complete_committed"
    /\ response' =
          [Respond(req[w].op, 200, "", req[w].emergency_id, req[w].unit_id)
             EXCEPT !.routes_cleared = 0]
    /\ req' = [req EXCEPT ![w] = IdleReq]
    /\ routing_log' = NoCalls
    /\ UNCHANGED <<db, unit_locations, broadcast, sim, now>>

NextStorage ==
    \/ Handlers({1}, {NearReply}, Plans({"none"}, Durations))
    \/ DispatchDeactivateFails(1)
    \/ CompleteDeactivateFails(1)

SpecStorage == Init /\ [][NextStorage]_vars

\* ---------------------------------------------------------------------
\* RouteCalculation.cleanup_old_routes on the dates of the first months of
\* a year. In this part the clock counts seconds from the first midnight
\* of the year and the timestamps of the rows may lie before it.
\* ---------------------------------------------------------------------

DayLength == 24 * 60 * 60

\* January, February, March of a common year.
MonthLengths == <<31, 28, 31>>

RECURSIVE DaysBefore(_)
DaysBefore(month) ==
    IF month = 1 THEN 0 ELSE DaysBefore(month - 1) + MonthLengths[month - 1]

\* Days of the year the model covers, counted from 0.
YearDays == 0..(DaysBefore(Len(MonthLengths)) + MonthLengths[Len(MonthLengths)] - 1)

\* datetime.utcnow().replace(hour=0, minute=0, second=0, microsecond=0)
Midnight(t) == (t \div DayLength) * DayLength

MonthOf(t) ==
    CHOOSE month \in 1..Len(MonthLengths) :
       /\ DaysBefore(month) <= t \div DayLength
       /\ t \div DayLength < DaysBefore(month) + MonthLengths[month]

\* The .day field of the date of t.
DayOfMonth(t) == (t \div DayLength) - DaysBefore(MonthOf(t)) + 1

\* cutoff_date.replace(day=cutoff_date.day - days_old): the same month
\* with another day number; a day number below 1 raises ValueError.
ReplaceDayRaises(t, days_old) == DayOfMonth(t) - days_old < 1

CutoffDate(t, days_old) == Midnight(t) - days_old * DayLength

\* Rows the query of cleanup_old_routes returns.
OldRoutes(rs, cutoff_date) ==
    { i \in 1..Len(rs) : ~rs[i].is_active /\ rs[i].timestamp < cutoff_date }

RECURSIVE DeleteRows(_, _)
DeleteRows(rs, old) ==
    IF rs = <<>> THEN <<>>
    ELSE IF Len(rs) \in old
         THEN DeleteRows(SubSeq(rs, 1, Len(rs) - 1), old)
         ELSE Append(DeleteRows(SubSeq(rs, 1, Len(rs) - 1), old), rs[Len(rs)])

CleanupResponse(days_old, count) ==
    [NoResponse EXCEPT !.op = "cleanup"] @@ [days_old |-> days_old, count |-> count]

\* cleanup_old_routes(days_old): the rows are deleted and the count
\* returned, or the exception is caught, the session rolled back and 0
\* returned.
cleanup_old_routes(days_old) ==
    /\ IF ReplaceDayRaises(now, days_old)
       THEN /\ response' = CleanupResponse(days_old, 0)
            /\ UNCHANGED routes
       ELSE LET old_routes == OldRoutes(routes, CutoffDate(now, days_old))
            IN /\ routes' = DeleteRows(routes, old_routes)
               /\ response' = CleanupResponse(days_old, Cardinality(old_routes))
    /\ routing_log' = NoCalls
    /\ UNCHANGED <<units, emergencies, location_rows, req,
                   unit_locations, broadcast, sim, now>>

\* Ages of the rows at the time of the call: at the cutoff of one day and
\* one second before it, and eight days old.
RowAges == { DayLength, DayLength + 1, 8 * DayLength, 8 * DayLength + 1 }

DaysOld == {1, 7}

\* Noon of a day of the covered months, the table holding rows of unit 1
\* written at earlier times, active or not.
InitCleanup ==
    /\ units = [u \in Units |-> [status |-> "AVAILABLE", service_type |-> "AMBULANCE"]]
    /\ emergencies = [e \in Emergencies |->
                        [status |-> "COMPLETED", emergency_type |-> "AMBULANCE",
                         assigned_unit |-> 1]]
    /\ now \in { d * DayLength + DayLength \div 2 : d \in YearDays }
    /\ \E n \in 1..MaxRoutes :
          \E age \in [1..n -> RowAges], active \in [1..n -> BOOLEAN] :
             routes = [ i \in 1..n |->
                          [NewRoute(1, 1, NearReply.duration, "none",
                                    Midnight(now) - age[i])
                             EXCEPT !.is_active = active[i]] ]
    /\ location_rows = {}
    /\ req = [w \in Workers |-> IdleReq]
    /\ routing_log = NoCalls
    /\ response = NoResponse
    /\ unit_locations = [u \in Units |-> NoEntry]
    /\ broadcast = NoBroadcast
    /\ sim = <<>>

NextCleanup == \E days_old \in DaysOld : cleanup_old_routes(days_old)

SpecCleanup == InitCleanup /\ [][NextCleanup]_vars

\* ---------------------------------------------------------------------
\* Start of the simulator: init_websocket and start_unit_simulation called
\* by the threads of Workers. In this part sim holds the module globals
\* simulation_running and simulation_thread and the number of threads
\* started so far by simulate_unit_movement.
\* ---------------------------------------------------------------------

MaxCalls == 5

Globals(simulation_running, simulation_thread, started, calls) ==
    [simulation_running |-> simulation_running,
     simulation_thread |-> simulation_thread,
     started |-> started, calls |-> calls]

\* Module load: simulation_thread = None, simulation_running = False.
InitStartup ==
    /\ units = [u \in Units |-> [status |-> "AVAILABLE", service_type |-> "AMBULANCE"]]
    /\ emergencies = [e \in Emergencies |->
                        [status |-> "PENDING", emergency_type |-> "AMBULANCE",
                         assigned_unit |-> None]]
    /\ routes = <<>>
    /\ location_rows = {}
    /\ req = [w \in Workers |-> IdleReq]
    /\ routing_log = NoCalls
    /\ response = NoResponse
    /\ unit_locations = [u \in Units |-> NoEntry]
    /\ broadcast = NoBroadcast
    /\ sim = Globals(FALSE, None, 0, 0)
    /\ now = 0

StartupFrame ==
    /\ routing_log' = NoCalls
    /\ UNCHANGED <<db, unit_locations, broadcast, now>>

\* Thread w calls op (init_websocket or start_unit_simulation) and
\* evaluates `if not simulation_running:`; with the flag set the call
\* returns at once.
TestRunning(w, op) ==
    /\ req[w].pc = "idle"
    /\ sim.calls < MaxCalls
    /\ sim' = [sim EXCEPT !.calls = @ + 1]
    /\ IF sim.simulation_running
       THEN /\ req' = req
            /\ response' = [NoResponse EXCEPT !.op = op]
       ELSE /\ req' = [req EXCEPT ![w] = [IdleReq EXCEPT !.pc = "not_running", !.op = op]]
            /\ response' = NoResponse
    /\ StartupFrame

\* simulation_running = True
SetRunning(w) ==
    /\ req[w].pc = "not_running"
    /\ sim' = [sim EXCEPT !.simulation_running = TRUE]
    /\ req' = [req EXCEPT ![w].pc = "flag_set"]
    /\ response' = NoResponse
    /\ StartupFrame

\* simulation_thread = simulate_unit_movement(app): a thread is created
\* and started, and the call returns.
StartThread(w) ==
    /\ req[w].pc = "flag_set"
    /\ sim' = [sim EXCEPT !.started = @ + 1, !.simulation_thread = sim.started + 1]
    /\ req' = [req EXCEPT ![w] = IdleReq]
    /\ response' = [NoResponse EXCEPT !.op = req[w].op]
    /\ StartupFrame

init_websocket(w) == TestRunning(w, "init_websocket")

start_unit_simulation(w) == TestRunning(w, "start_unit_simulation")

NextStartup ==
    \/ \E w \in Workers : init_websocket(w)
    \/ \E w \in Workers : start_unit_simulation(w)
    \/ \E w \in Workers : SetRunning(w)
    \/ \E w \in Workers : StartThread(w)

SpecStartup == InitStartup /\ [][NextStartup]_vars

\* ---------------------------------------------------------------------
\* The in-memory location history. In this part sim holds the module
\* global location_history (unit_id -> list of updates) and the number of
\* updates each unit has received; an update is identified by the unit
\* and its arrival number.
\* ---------------------------------------------------------------------

HISTORY_LIMIT == 100

MaxUpdates == 102

HistoryEntry(unit_id, arrival) == [unit_id |-> unit_id, arrival |-> arrival]

History(location_history, arrivals) ==
    [location_history |-> location_history, arrivals |-> arrivals]

\* Variant: the oldest entries are kept.
TrimHistory_oldest(h) ==
    IF Len(h) > HISTORY_LIMIT THEN SubSeq(h, 1, HISTORY_LIMIT) ELSE h

\* if len(location_history[unit_id]) > 100:
\*     location_history[unit_id] = location_history[unit_id][-100:]
TrimHistory(h) ==
    IF Len(h) > HISTORY_LIMIT
    THEN SubSeq(h, Len(h) - HISTORY_LIMIT + 1, Len(h))
    ELSE h

RECURSIVE SumOver(_, _)
SumOver(f, S) ==
    IF S = {} THEN 0
    ELSE LET x == CHOOSE y \in S : TRUE IN f[x] + SumOver(f, S \ {x})

\* update_unit_location(unit_id, latitude, longitude, status) as the
\* socket handler calls it: registry write, history append and trim, emit.
update_unit_location(unit_id, status) ==
    /\ SumOver(sim.arrivals, Units) < MaxUpdates
    /\ unit_locations' = [unit_locations EXCEPT ![unit_id] = Entry(0, None, status)]
    /\ sim' = History(
                [sim.location_history EXCEPT
                   ![unit_id] = TrimHistory(Append(@, HistoryEntry(unit_id,
                                                     sim.arrivals[unit_id] + 1)))],
                [sim.arrivals EXCEPT ![unit_id] = @ + 1])
    /\ broadcast' = LocationEvent(unit_id, 0, None, status, "manual")
    /\ response' = NoResponse
    /\ routing_log' = NoCalls
    /\ UNCHANGED <<db, req, now>>

\* Module load: location_history = {} (no unit has a list).
InitHistory ==
    /\ units = [u \in Units |-> [status |-> "AVAILABLE", service_type |-> "AMBULANCE"]]
    /\ emergencies = [e \in Emergencies |->
                        [status |-> "PENDING", emergency_type |-> "AMBULANCE",
                         assigned_unit |-> None]]
    /\ routes = <<>>
    /\ location_rows = {}
    /\ req = [w \in Workers |-> IdleReq]
    /\ routing_log = NoCalls
    /\ response = NoResponse
    /\ unit_locations = [u \in Units |-> NoEntry]
    /\ broadcast = NoBroadcast
    /\ sim = History([u \in Units |-> <<>>], [u \in Units |-> 0])
    /\ now = 0

NextHistory == \E u \in Units : update_unit_location(u, "ENROUTE")

SpecHistory == InitHistory /\ [][NextHistory]_vars

\* ---------------------------------------------------------------------
\* The status label of one simulator iteration, for progress values drawn
\* over the whole range with the thresholds and their neighbours.
\* ---------------------------------------------------------------------

\* Every multiple of the step and the values one unit to either side of
\* it, which is where sums of the step in floating point fall.
ProgressValues ==
    { p \in 0..PScale :
        \E k \in 0..(PScale \div SIM_STEP) : \E d \in {0 - 1, 0, 1} :
          p = k * SIM_STEP + d }

\* An iteration for unit 1 and incident 1 that has computed its progress
\* and is about to derive the status and send the event.
InitStatus ==
    /\ units = [u \in Units |->
                  [status |-> IF u = 1 THEN "DISPATCHED" ELSE "AVAILABLE",
                   service_type |-> "AMBULANCE"]]
    /\ emergencies = [e \in Emergencies |->
                  [status |-> IF e = 1 THEN "ASSIGNED" ELSE "PENDING",
                   emergency_type |-> "AMBULANCE",
                   assigned_unit |-> IF e = 1 THEN 1 ELSE None]]
    /\ routes = <<NewRoute(1, 1, NearReply.duration, "none", 0)>>
    /\ location_rows = {}
    /\ req = [w \in Workers |-> IdleReq]
    /\ routing_log = NoCalls
    /\ response = NoResponse
    /\ unit_locations = [u \in Units |-> NoEntry]
    /\ broadcast = NoBroadcast
    /\ \E progress \in ProgressValues :
          sim = SimThread("computed", <<[emergency_id |-> 1, unit_id |-> 1]>>,
                          progress, NoEntry)
    /\ now = 0

NextStatus == CallUpdateUnitLocation

SpecStatus == InitStatus /\ [][NextStatus]_vars

\* =====================================================================
\* Properties
\* =====================================================================

AssignedTo(u) ==
    { e \in Emergencies : /\ emergencies[e].status = "ASSIGNED"
                          /\ emergencies[e].assigned_unit = u }

\* C1: at every moment at most one incident in status ASSIGNED references
\* a given unit as its assigned unit, whatever the interleaving of
\* concurrent dispatch requests for different incidents.
C1_OneAssignedIncidentPerUnit ==
    \A u \in Units : Cardinality(AssignedTo(u)) <= 1

\* Distance the routing provider (or, when its call failed, the haversine
\* formula) gives for unit v and incident e in the replies of a dispatch.
LoggedDistance(log, v, e) ==
    IF log[v].kind = "error"
    THEN 1000 * Abs(EmergencyPosition(e) - UnitPosition(v))
    ELSE log[v].distance

\* The step is the selection of a unit by a dispatch request of worker w.
SelectionStep(w) ==
    req[w].pc = "idle" /\ req'[w].pc = "dispatch_selected"

\* C2: the unit chosen by dispatch is an AVAILABLE unit of the incident's
\* service type, its routed distance (haversine distance when the routing
\* call failed) is at most 50 km and is the minimum among all such units
\* with a distance of at most 50 km.
C2_NearestEligibleUnitChosen ==
    [][ \A w \in Workers : SelectionStep(w) =>
          LET u == req'[w].unit_id
              e == req'[w].emergency_id
              D(v) == LoggedDistance(routing_log', v, e)
          IN
          /\ units[u].status = "AVAILABLE"
          /\ units[u].service_type = emergencies[e].emergency_type
          /\ routing_log'[u].kind \in {"route", "error"}
          /\ D(u) <= 50000
          /\ \A v \in Units :
                ( /\ units[v].status = "AVAILABLE"
                  /\ units[v].service_type = emergencies[e].emergency_type
                  /\ routing_log'[v].kind \in {"route", "error"}
                  /\ D(v) <= 50000 )
                => D(u) <= D(v) ]_vars

\* A dispatch has chosen a unit measured by the haversine fallback while
\* another eligible unit had a routed distance within the cap.
C2_Witness ==
    \E w \in Workers, v \in Units :
        /\ req[w].pc = "dispatch_selected"
        /\ v # req[w].unit_id
        /\ routing_log[req[w].unit_id].kind = "error"
        /\ routing_log[v].kind = "route"
        /\ routing_log[v].distance <= 50000

\* Units asked by the dispatch step just taken.
Called(log) == { v \in Units : log[v].kind # "not_called" }

\* C3: when every eligible unit is farther than the 50 km cap, dispatch
\* fails with an error carrying nearest_distance_m = the minimum distance
\* observed over all eligible units, and the failed request changes no
\* unit, incident or route record.
C3_CapFailureReportsNearest ==
    [][ Called(routing_log') # {} =>
          LET Measured == { v \in Called(routing_log') :
                              routing_log'[v].kind \in {"route", "error"} }
              AllBeyondCap(e) ==
                  /\ Measured # {}
                  /\ \A v \in Measured : LoggedDistance(routing_log', v, e) > 50000
          IN
          /\ \A w \in Workers :
                SelectionStep(w) => ~AllBeyondCap(req'[w].emergency_id)
          /\ (\A w \in Workers : ~SelectionStep(w)) =>
                LET e == response'.emergency_id IN
                /\ response'.op = "dispatch"
                /\ Called(routing_log') =
                      { v \in Units : /\ units[v].status = "AVAILABLE"
                                      /\ units[v].service_type = emergencies[e].emergency_type }
                /\ AllBeyondCap(e) =>
                      /\ response'.code = 400
                      /\ response'.error = "none_within_50km"
                      /\ \E v \in Measured :
                            response'.nearest_distance_m = LoggedDistance(routing_log', v, e)
                      /\ \A v \in Measured :
                            response'.nearest_distance_m <= LoggedDistance(routing_log', v, e)
                      /\ UNCHANGED <<units, emergencies, routes, location_rows, req>> ]_vars

\* A dispatch failed on the cap with two eligible units at different
\* distances beyond it, the nearer one measured by the haversine fallback.
C3_Witness ==
    /\ response.op = "dispatch"
    /\ response.error = "none_within_50km"
    /\ response.nearest_distance_m = 55000
    /\ \E v \in Units : routing_log[v].kind = "route" /\ routing_log[v].distance = 60000

\* C4: every unit has at most one route row with is_active = true.
C4_OneActiveRoutePerUnit ==
    \A u \in Units :
        Cardinality({ i \in ActiveIndices(routes) : routes[i].unit_id = u }) <= 1

\* The step is the route deactivation of a completion request of worker w.
CompletionDeactivationStep(w) ==
    req[w].pc = "complete_committed" /\ req'[w].pc = "idle"

Completed(e) ==
    /\ emergencies[e].status = "COMPLETED"
    /\ \A w \in Workers :
          ~(req[w].pc = "complete_committed" /\ req[w].emergency_id = e)

NoActiveRouteFor(u, e) ==
    \A i \in ActiveIndices(routes) :
        ~(routes[i].unit_id = u /\ routes[i].emergency_id = e)

\* C6: once an ASSIGNED incident has been completed, its unit is AVAILABLE
\* and the incident COMPLETED, and from the end of the completion on no
\* route query finds an active route of that unit and incident.
C6_CompletedStaysWithoutActiveRoute ==
    [][ /\ \A e \in Emergencies :
            (emergencies[e].status = "ASSIGNED" /\ emergencies'[e].status = "COMPLETED")
            => units'[emergencies[e].assigned_unit].status = "AVAILABLE"
        /\ \A e \in Emergencies :
            (Completed(e) /\ NoActiveRouteFor(emergencies[e].assigned_unit, e))
            => \A i \in 1..Len(routes') :
                  ( /\ routes'[i].unit_id = emergencies[e].assigned_unit
                    /\ routes'[i].emergency_id = e )
                  => ~routes'[i].is_active ]_vars

StatusRank(st) ==
    IF st \in {"PENDING", "APPROVED"} THEN 1 ELSE IF st = "ASSIGNED" THEN 2 ELSE 3

\* The step sent a refusal (an error response).
Refusal == response'.op \in {"dispatch", "complete", "complete_my"} /\ response'.code >= 400

\* C7: an incident's status only moves forward along PENDING/APPROVED ->
\* ASSIGNED -> COMPLETED, COMPLETED is terminal, and a refused dispatch or
\* completion changes no incident, unit or route record.
C7_StatusOnlyMovesForward ==
    [][ /\ \A e \in Emergencies :
            /\ StatusRank(emergencies'[e].status) >= StatusRank(emergencies[e].status)
            /\ StatusRank(emergencies'[e].status) <= StatusRank(emergencies[e].status) + 1
        /\ Refusal => UNCHANGED <<units, emergencies, routes>> ]_vars

\* C8: while a unit and an incident stay ASSIGNED to each other, the
\* progress held for the unit in the live-location registry never
\* decreases, under simulator ticks and manual location updates.
C8_RegistryProgressNeverDecreases ==
    [][ \A u \in Units :
          ( /\ AssignedTo(u) # {}
            /\ \A e \in AssignedTo(u) :
                  /\ emergencies'[e].status = "ASSIGNED"
                  /\ emergencies'[e].assigned_unit = u
            /\ unit_locations[u].present
            /\ unit_locations'[u].present )
          => unit_locations'[u].progress >= unit_locations[u].progress ]_vars

\* C9: for a route row that stays active, two successive answers of the
\* same route query never show a decreasing progress, whatever the time
\* between them and whatever the estimated duration of the route.
C9_QueryProgressNeverDecreases ==
    [][ \A d1 \in response.route_data, d2 \in response'.route_data :
          ( /\ response.op = response'.op
            /\ d1.route_id = d2.route_id
            /\ routes'[d2.route_id].is_active )
          => d2.progress >= d1.progress ]_vars

FreshRange == ((5 * PScale) \div 100) .. ((30 * PScale) \div 100)

\* C10: the first progress value produced for a unit after its dispatch,
\* by the simulator's broadcast or by the route query, lies in
\* [0.05, 0.30].
C10_FirstProgressInFreshRange ==
    [][ /\ (sim # <<>> /\ sim' = Tail(sim)) =>
            LET u == Head(sim).unit_id
                e == Head(sim).emergency_id
            IN
            ( \/ ~unit_locations[u].present
              \/ unit_locations[u].emergency_id \notin {None, e} )
            => broadcast'.progress \in FreshRange
        /\ ( /\ response.op = "dispatch"
              /\ response.code = 200
              /\ response'.op = "unit_routes"
              /\ response'.unit_id = response.unit_id )
            => \A d \in response'.route_data : d.progress \in FreshRange ]_vars

\* The answer on display is a route query's, with these route entries.
QueryAnswer == response.op \in {"unit_routes", "active_unit_routes"}

RoutedDispatch ==
    /\ response.op = "dispatch"
    /\ response.code = 200
    /\ "routing_source" \in DOMAIN response

\* The row that commit inserted.
StoredRoute == routes[Len(routes)]

\* Candidates of the route pass just run: the routes of alt_routes within
\* the distance cap.
PassCandidates ==
    { routing_log[i] : i \in { j \in DOMAIN routing_log :
                                   /\ routing_log[j].kind = "candidate"
                                   /\ routing_log[j].distance <= MAX_DISTANCE_METERS } }

\* The candidate whose geometry the commit stored.
SelectedCandidates ==
    { c \in PassCandidates : c.geometry = StoredRoute.route_geometry.id }

\* C13: a candidate within 90 m of an active HIGH segment is never the
\* selected route while the candidate set holds one farther than 90 m.
C13_HighProximityNeverSelected ==
    RoutedDispatch =>
      \A c \in SelectedCandidates :
        c.high_distance_m <= 90 =>
          \A d \in PassCandidates : d.high_distance_m <= 90

\* C14: the selected route has the minimum severity rank among the
\* candidates of the pass, whatever the durations, the shortest-route
\* preference included.
C14_SelectedHasMinimumRank ==
    RoutedDispatch =>
      \A c \in SelectedCandidates :
        \A d \in PassCandidates : jam_rank(c) <= jam_rank(d)

\* A clear route of 900 s was stored although a route of 240 s with 300 m
\* of HIGH overlap was a candidate.
C14_Witness ==
    /\ RoutedDispatch
    /\ \E c \in SelectedCandidates : jam_rank(c) = 1 /\ c.duration = 900
    /\ \E d \in PassCandidates : jam_rank(d) = 3 /\ d.duration = 240

\* Every unit asked by the distance loop just run got a failure, and one of
\* them is within the cap by haversine distance of incident e.
AllLookupsFailed(log, e) ==
    /\ Called(log) # {}
    /\ \A u \in Called(log) : log[u].kind = "error"
    /\ \E u \in Called(log) :
          haversine_m(EmergencyPosition(e), UnitPosition(u)) <= MAX_DISTANCE_METERS

\* C15: a dispatch whose routing calls all fail is not failed by that.
\* When every distance lookup of the unit loop raises and an eligible unit
\* is within 50 km by haversine distance, a unit is selected instead of an
\* error being answered; the handler then proceeds to its commit; and when
\* the route pass got no route either, the commit answers 200, leaves the
\* unit DISPATCHED, the incident ASSIGNED to it, and an active route row
\* without geometry, waypoint_count 0, routing_source euclidean_fallback.
C15_RoutingFailureNeverFailsDispatch ==
    [][ /\ ( /\ req[1].pc = "idle"
             /\ \E e \in Emergencies :
                   /\ response'.emergency_id = e \/ req'[1].emergency_id = e
                   /\ AllLookupsFailed(routing_log', e) )
           => ( /\ response' = NoResponse
                /\ req'[1].pc = "dispatch_selected"
                /\ haversine_m(EmergencyPosition(req'[1].emergency_id),
                               UnitPosition(req'[1].unit_id)) <= MAX_DISTANCE_METERS )
        /\ req[1].pc = "dispatch_selected"
           => req'[1].pc = "dispatch_deactivated" /\ response' = NoResponse
        /\ ( /\ req[1].pc = "dispatch_deactivated"
             /\ routing_log' = <<>> )
           => ( /\ response'.op = "dispatch"
                /\ response'.code = 200
                /\ response'.waypoint_count = 0
                /\ response'.routing_source = "euclidean_fallback"
                /\ units'[req[1].unit_id].status = "DISPATCHED"
                /\ emergencies'[req[1].emergency_id].status = "ASSIGNED"
                /\ emergencies'[req[1].emergency_id].assigned_unit = req[1].unit_id
                /\ LET r == routes'[Len(routes')] IN
                     /\ Len(routes') = Len(routes) + 1
                     /\ r.is_active
                     /\ r.unit_id = req[1].unit_id
                     /\ r.emergency_id = req[1].emergency_id
                     /\ r.geometry = "none"
                     /\ r.route_geometry = NoGeometry
                     /\ r.waypoint_count = 0 ) ]_vars

\* A dispatch was committed for a unit whose distance lookup had raised
\* (no routed duration) and whose route pass got no route.
C15_Witness ==
    /\ RoutedDispatch
    /\ routing_log = <<>>
    /\ response.routing_source = "euclidean_fallback"
    /\ StoredRoute.duration = None
    /\ StoredRoute.is_active
    /\ units[response.unit_id].status = "DISPATCHED"

\* Smaller of two point counts.
MinCount(a, b) == IF a < b THEN a ELSE b

\* Number of points of the geometry the route pass selected, for the row
\* just stored (0 when the row has no geometry).
RawPointCount == Len(polyline_decode(StoredRoute.route_geometry))

\* C18: for a geometry of n points the stored waypoint list has
\* min(n, 245) points, never more than 245, and the stored waypoint_count
\* (also the one answered) is the length of the stored list.
C18_WaypointCap ==
    RoutedDispatch =>
      /\ Len(StoredRoute.cached_waypoints) = MinCount(RawPointCount, 245)
      /\ Len(StoredRoute.cached_waypoints) <= 245
      /\ StoredRoute.waypoint_count = Len(StoredRoute.cached_waypoints)
      /\ response.waypoint_count = StoredRoute.waypoint_count
      /\ \A i \in 1..Len(StoredRoute.cached_waypoints) :
            StoredRoute.cached_waypoints[i] \in 1..RawPointCount

\* A geometry of 300 points was stored as 245 waypoints.
C18_Witness ==
    /\ RoutedDispatch
    /\ RawPointCount = 300
    /\ StoredRoute.waypoint_count = 245
    /\ Len(StoredRoute.cached_waypoints) = 245

\* C19: for every row dispatch writes with geometry, decoding the stored
\* route_geometry gives a point count within one of the stored
\* waypoint_count.
C19_StoredPolylineMatchesCount ==
    (RoutedDispatch /\ StoredRoute.geometry = "polyline") =>
      Abs(Len(polyline_decode(StoredRoute.route_geometry))
            - StoredRoute.waypoint_count) <= 1

\* C16: the simulator loop never exits because a tick failed.  Whenever an
\* error of a tick has been caught, a later tick is attempted, and ticks
\* are attempted infinitely often however many of them fail.
C16_LoopSurvivesFailedTicks ==
    /\ (sim.pc = "sleep5") ~> (sim.pc = "try")
    /\ []<>(sim.pc = "try")

\* The error of a failed tick has been caught and the longer sleep runs.
C16_Witness == sim.pc = "sleep5"

\* The unit whose row the tick is working on.
TickUnit == Head(sim.rows).unit_id

\* C17: accesses to a unit's registry entry exclude each other between a
\* tick and a live update.  When the registry no longer holds the entry
\* the tick in progress read or wrote for the unit (a live update came in
\* between), the tick's next step does not overwrite that entry with the
\* values it computed before.
C17_TickNeverOverwritesLiveUpdate ==
    [][ ( /\ sim.pc \in {"computed", "updated"}
          /\ unit_locations[TickUnit] # sim.current_location
          /\ sim' # sim )
        => unit_locations'[TickUnit] = unit_locations[TickUnit] ]_vars

\* Routes evaluated by the step just taken.
EvaluatedRoutes ==
    { routing_log[i] : i \in { j \in DOMAIN routing_log :
                                   routing_log[j].kind = "candidate" } }

\* C20: route_jam_severity_rank is 3 when the HIGH overlap is >= 120 m,
\* 2 when the HIGH overlap is < 120 m and the MEDIUM overlap >= 120 m, and
\* 1 in every other case.
C20_SeverityRankByThresholds ==
    \A c \in EvaluatedRoutes :
        c.jam_rank = IF c.jam_overlap_m.HIGH >= 120 THEN 3
                     ELSE IF c.jam_overlap_m.MEDIUM >= 120 THEN 2
                     ELSE 1

\* The pass just run over the candidates in the log.
PassAnswer == response.op = "route_pass"

\* Positions in the log of the candidates of minimum severity rank.
MinRankSubset ==
    { i \in DOMAIN routing_log :
        \A j \in DOMAIN routing_log : jam_rank(routing_log[i]) <= jam_rank(routing_log[j]) }

\* The candidate at position i has minimum combinedCost in the minimum-rank
\* subset, and among those of equal cost minimum traffic-adjusted duration.
CheapestInSubset(i) ==
    LET cost == combined_cost(routing_log, MinRankSubset) IN
    /\ i \in MinRankSubset
    /\ \A j \in MinRankSubset :
          \/ cost[i] < cost[j]
          \/ /\ cost[i] = cost[j]
             /\ traffic_score(routing_log[i]) <= traffic_score(routing_log[j])

\* The candidate at position i has the shortest duration of all.
ShortestOverall(i) ==
    \A j \in DOMAIN routing_log : routing_log[i].duration <= routing_log[j].duration

\* The shortest candidate at position i has rank 1 and a cost within 0.08
\* (8 points of the normalised cost) of the cost of the candidate at k.
Replaces(i, k) ==
    LET cost == combined_cost(routing_log, MinRankSubset) IN
    /\ jam_rank(routing_log[i]) = 1
    /\ cost[i] <= cost[k] + (8 * CostScale) \div 100

\* C21: the route selected is the one of minimum combinedCost in the
\* minimum-rank subset (ties by traffic-adjusted duration), except that
\* the overall shortest candidate is selected instead exactly when it has
\* rank 1 and its cost is within 8% of that candidate's cost.
C21_MinimumCostWithShortestPreference ==
    PassAnswer =>
      \E k \in DOMAIN routing_log :
        /\ CheapestInSubset(k)
        /\ \E i \in DOMAIN routing_log :
              /\ ShortestOverall(i)
              /\ response.selected =
                    IF Replaces(i, k) THEN routing_log[i].geometry
                    ELSE routing_log[k].geometry

\* The shortest candidate, of rank 1 and within 0.08 of the cheapest,
\* replaced a cheapest candidate that is a different route.
C21_Witness ==
    /\ PassAnswer
    /\ \E k, i \in DOMAIN routing_log :
          /\ CheapestInSubset(k)
          /\ ShortestOverall(i)
          /\ Replaces(i, k)
          /\ ~CheapestInSubset(i)
          /\ response.selected = routing_log[i].geometry
          /\ Len(routing_log) = 3

\* A call of the candidate generator has just returned the list in the log.
GeneratorAnswer == response.op = "route_candidates"

\* C22: the generator returns at most 24 candidates whatever the
\* providers return, and a provider call that fails is skipped: the
\* generator still returns (a list without that call's routes).
C22_AtMost24Candidates ==
    GeneratorAnswer => Len(routing_log) <= 24

\* The last location event sent was a live update of unit u, and the
\* registry still holds the entry that update stored.
LivePositionHeld(u) ==
    /\ broadcast.source = "manual"
    /\ broadcast.unit_id = u
    /\ unit_locations[u] = Entry(broadcast.progress, broadcast.emergency_id,
                                 broadcast.status)

\* C23: the simulator advances and broadcasts a synthetic position only
\* for a unit without live position reports.  While the registry holds
\* the live position of a unit, only another live update replaces that
\* entry, and no simulator event is sent for the unit.
C23_SimulatorYieldsToLiveGps ==
    [][ \A u \in Units :
          LivePositionHeld(u) =>
            /\ unit_locations'[u] # unit_locations[u] => broadcast'.source = "manual"
            /\ ~(broadcast'.source = "simulator" /\ broadcast'.unit_id = u) ]_vars

C25_ActiveRoutesReferenceNewIncident ==
    (response.op = "dispatch" /\ response.code = 200) =>
      \A i \in ActiveIndices(routes) :
         routes[i].unit_id = response.unit_id
           => routes[i].emergency_id = response.emergency_id

\* The registry entry of the dispatched unit after a step: created with
\* progress 0, and from then on either kept or moved one step forward,
\* never beyond 1.0.
ProgressStepsForward ==
    LET before == unit_locations[1]
        after == unit_locations'[1]
    IN
    /\ after.present
    /\ IF before.present
       THEN after.progress \in {before.progress,
                                Min2(PScale, before.progress + SIM_STEP)}
       ELSE after.progress = 0

Arrived ==
    /\ unit_locations[1].present
    /\ unit_locations[1].progress = PScale
    /\ unit_locations[1].status = "ARRIVED"

C27_CleanupDeletesOldInactiveRoutes ==
    [][response'.op = "cleanup" =>
         LET old == OldRoutes(routes, Midnight(now) - response'.days_old * DayLength)
         IN /\ routes' = DeleteRows(routes, old)
            /\ response'.count = Cardinality(old)]_vars

\* A step in which the simulator sends the location update of the head
\* row of its snapshot.
SimulatorBroadcasts ==
    /\ sim # <<>>
    /\ sim' = Tail(sim)
    /\ broadcast'.source = "simulator"
    /\ broadcast'.emergency_id = Head(sim).emergency_id

\* C28: once an incident is COMPLETED, no simulator broadcast carries a
\* location update for it, also when the completion happened while the
\* tick was in progress.
C28_NoBroadcastAfterCompletion ==
    [][SimulatorBroadcasts =>
         emergencies[broadcast'.emergency_id].status # "COMPLETED"]_vars

\* C29: at most one simulator thread is ever started, however many times
\* and from however many threads init_websocket and start_unit_simulation
\* are called.
C29_AtMostOneSimulatorThread == sim.started <= 1

\* C30: after any sequence of location updates the history of each unit
\* holds at most 100 entries, and they are the most recent updates of the
\* unit in arrival order.
C30_HistoryKeepsLast100 ==
    \A u \in Units :
       LET h == sim.location_history[u]
           n == sim.arrivals[u]
       IN /\ Len(h) = Min2(n, HISTORY_LIMIT)
          /\ \A i \in 1..Len(h) : h[i] = HistoryEntry(u, n - Len(h) + i)

C30_Witness ==
    \E u \in Units :
       /\ sim.arrivals[u] > HISTORY_LIMIT
       /\ Len(sim.location_history[u]) = HISTORY_LIMIT
       /\ sim.location_history[u][1].arrival = sim.arrivals[u] - HISTORY_LIMIT + 1
       /\ broadcast.unit_id = u

====
